---- MODULE Spec2Model ----
(***************************************************************************)
(* Model of kv/transport.go: the grpc Transport (grpcTransportFactory,     *)
(* grpcTransport.IsExhausted / SendNext / TryNext / Close, splitHealthy,   *)
(* byHealth) and the test transport (SenderTransportFactory,               *)
(* senderTransport).                                                       *)
(*                                                                         *)
(* A Go slice is modelled by the sequence of its elements.  That is exact  *)
(* here: after construction no statement writes through a slice element;   *)
(* SendNext re-slices, and TryNext builds its new slices with make() and   *)
(* with append() onto a fresh one-element literal, both of which allocate  *)
(* storage that allOrderedClients does not share.                          *)
(*                                                                         *)
(* The connection handles of a batchClient (conn, client) are determined   *)
(* by its address and carry no state of their own in this file, so a       *)
(* client is the record of its remoteAddr, args and healthy fields.  Of    *)
(* args only the stamped Replica is recorded.  A reply is told apart by    *)
(* being nil, a reply, or a reply whose embedded Error is set.  The remote *)
(* server is taken to keep the Batch protocol (one response per request),  *)
(* so the Verify loop of the network path only logs.                       *)
(***************************************************************************)
EXTENDS Naturals, Integers, Sequences, FiniteSets, TLC

\* ------------------------------------------------------------------ bounds
MaxReplicas == 3
MaxReplicaID == 2
MaxChanCap == 1

\* ------------------------------------------------------------------- state
VARIABLES
    phase,              \* "init" | "open" | "failed" (factory error) | "panicked"
    kind,               \* "none" | "grpc" | "sender": the Transport built
    orderedClients,     \* grpcTransport.orderedClients
    allOrderedClients,  \* grpcTransport.allOrderedClients
    called,             \* senderTransport.called
    pc,                 \* the caller: "idle" | "blocked" (inside SendNext at done <-)
    calls,              \* one record per SendNext that dispatched
    done,               \* the buffer of the chan BatchCall given to SendNext
    doneCap,            \* cap(done)
    lastOp,             \* the caller's last Transport call, its argument and result
    tryNextCalled,      \* history: TryNext has been called on this transport
    sentNoRetry,        \* history: replicas dispatched to and not TryNext-ed since
    dispatches,         \* history: how often SendNext dispatched to each replica
    sends,              \* history: what sender.Send returned, one entry per call of it
    closed,             \* history: Close has been called on this transport
    harness,            \* "off", or where a call of a function on its own stands
    clients,            \* splitHealthy on its own: the slice it works on;
                        \* with storage: the clients as the factory returned them
    nHealthy,           \* splitHealthy on its own: the value it returned
    splitInput,         \* splitHealthy on its own: the slice as it was passed in
    factoryCall,        \* the factory on its own: replicas passed, dial and health results
    factoryErr,         \* the factory on its own: the error it returned
    heap,               \* storage, where tracked: the arrays the two slices point into
    ocRef,              \* storage: the slice header of gt.orderedClients
    allRef              \* storage: the slice header of gt.allOrderedClients

vars == <<phase, kind, orderedClients, allOrderedClients, called, pc,
          calls, done, doneCap, lastOp, tryNextCalled, sentNoRetry, dispatches,
          sends, closed, harness, clients, nHealthy, splitInput, factoryCall, factoryErr,
          heap, ocRef, allRef>>

sessionVars == <<phase, kind, orderedClients, allOrderedClients, called,
                 pc, calls, done, doneCap, lastOp, tryNextCalled, sentNoRetry,
                 dispatches, sends, closed>>

harnessVars == <<harness, clients, nHealthy, splitInput, factoryCall, factoryErr>>

storageVars == <<heap, ocRef, allRef>>

\* ------------------------------------------------------------------- types
\* roachpb.ReplicaDescriptor.
NewReplicaDescriptor(n, s, r) == [NodeID |-> n, StoreID |-> s, ReplicaID |-> r]

\* The replicas of the range: replica r lives on store r + 1 of node r + 1
\* (the replicas of a range are on different nodes).  One of them carries the
\* replica id 0.
ReplicaDescriptors ==
    { NewReplicaDescriptor(r + 1, r + 1, r) : r \in 0..MaxReplicaID }

\* A descriptor that carries a replica id of the range but names a node that
\* holds no replica of it: no client is ever stamped with it.
ForeignDescriptor == NewReplicaDescriptor(MaxReplicaID + 2, MaxReplicaID + 2, 1)

\* The descriptors the caller may pass to TryNext.
TryNextArguments == ReplicaDescriptors \cup {ForeignDescriptor}

\* The zero value of roachpb.ReplicaDescriptor.
ZeroDescriptor == NewReplicaDescriptor(0, 0, 0)

\* replica.NodeDesc.Address.String(): the address of the replica's node.
\* Addresses are numbered by node; 0 is the empty string.
AddressOf(replica) == replica.NodeID

\* type batchClient.
NewBatchClient(addr, replica, isHealthy) ==
    [remoteAddr |-> addr, args |-> [Replica |-> replica], healthy |-> isHealthy]

\* The zero value of batchClient.
ZeroClient == NewBatchClient(0, ZeroDescriptor, FALSE)

\* type BatchCall.  Reply is "nil", "reply" or "reply+error" (a reply whose
\* embedded Error is set); Err is "nil" or "err".
NewBatchCall(reply, err) == [Reply |-> reply, Err |-> err]

NoBatchCall == NewBatchCall("none", "none")

\* What a Batch call (local server or grpc client) can return.
BatchReturns ==
    { NewBatchCall("reply", "nil"),
      NewBatchCall("reply+error", "nil"),
      NewBatchCall("nil", "err") }

\* What client.Sender.Send can return: (br, pErr).
SenderReturns ==
    [br : {"nil", "reply", "reply+error"}, pErr : {"nil", "err"}]

\* Sequences over S of length at most n without repeated elements.
DistinctSeqs(S, n) ==
    { s \in UNION { [1..k -> S] : k \in 0..n } :
        \A i, j \in DOMAIN s : i # j => s[i] # s[j] }

\* ------------------------------------------------- splitHealthy / byHealth
\* Less with h[j] not consulted: a healthy client is "less" than a healthy one.
LessNonStrict(h, i, j) == h[i].healthy

\* byHealth.Less
Less(h, i, j) == h[i].healthy /\ ~h[j].healthy

\* byHealth.Swap
Swap(h, i, j) == [h EXCEPT ![i] = h[j], ![j] = h[i]]

\* sort.Stable on fewer than 20 elements is one insertion sort over the
\* whole slice: for i := 1..n-1 { for j := i; j > 0 && Less(j, j-1); j-- {
\* Swap(j, j-1) } }.  Indices here are 1-based.
RECURSIVE insertionInner(_, _)
insertionInner(h, j) ==
    IF j > 1 /\ Less(h, j, j - 1)
    THEN insertionInner(Swap(h, j, j - 1), j - 1)
    ELSE h

RECURSIVE insertionOuter(_, _)
insertionOuter(h, i) ==
    IF i > Len(h) THEN h ELSE insertionOuter(insertionInner(h, i), i + 1)

Stable(h) == insertionOuter(h, 2)

\* The counting loop of splitHealthy.
RECURSIVE countHealthy(_, _)
countHealthy(h, i) ==
    IF i > Len(h) THEN 0
    ELSE (IF h[i].healthy THEN 1 ELSE 0) + countHealthy(h, i + 1)

\* splitHealthy: the slice after the call and the returned count.
splitHealthy(cs) ==
    LET sorted == Stable(cs)
    IN  [clients |-> sorted, nHealthy |-> countHealthy(sorted, 1)]

\* ---------------------------------------------------- grpcTransportFactory
\* The dial loop.  dial[i] is what GRPCDial returns for replicas[i]: "ok",
\* "breakerOpen" (an error whose cause is circuit.ErrBreakerOpen) or "error"
\* (any other error); health[i] is what IsConnHealthy returns for it.
RECURSIVE dialLoop(_, _, _, _, _)
dialLoop(rs, dial, health, i, acc) ==
    IF i > Len(rs) THEN [err |-> "nil", clients |-> acc]
    ELSE IF dial[i] = "breakerOpen" THEN dialLoop(rs, dial, health, i + 1, acc)
    ELSE IF dial[i] # "ok" THEN [err |-> dial[i], clients |-> <<>>]
    ELSE dialLoop(rs, dial, health, i + 1,
                  Append(acc, NewBatchClient(AddressOf(rs[i]), rs[i], health[i])))

\* A factory that returns the dialed clients without calling splitHealthy.
grpcTransportFactoryNoSplit(rs, dial, health) == dialLoop(rs, dial, health, 1, <<>>)

\* grpcTransportFactory: the error returned and, when there is none, the
\* slice both orderedClients and allOrderedClients are set to.
grpcTransportFactory(rs, dial, health) ==
    LET dialed == dialLoop(rs, dial, health, 1, <<>>)
    IN  IF dialed.err # "nil" THEN dialed
        ELSE [err |-> "nil", clients |-> splitHealthy(dialed.clients).clients]

\* ------------------------------------------------------------ grpcTransport
\* IsExhausted one client early.
IsExhaustedOffByOne(oc) == Len(oc) <= 1

\* grpcTransport.IsExhausted
IsExhaustedResult(oc) == Len(oc) = 0

\* A SendNext that takes the last client of orderedClients.
SendNextPopLast(oc) ==
    [client |-> oc[Len(oc)], orderedClients |-> SubSeq(oc, 1, Len(oc) - 1)]

\* A SendNext that does not re-slice orderedClients.
SendNextPopKeeps(oc) == [client |-> oc[1], orderedClients |-> oc]

\* The two statements that open SendNext: the client dispatched to and the
\* re-sliced orderedClients.
SendNextPop(oc) == [client |-> oc[1], orderedClients |-> Tail(oc)]

ErrExhausted == "transport is exhausted"
ErrNilLeader == "new leader is <nil>"
ErrNoClient == "couldn't find client for replica"

\* Index of the first client of cs stamped with replica, 0 when there is none
\* (the range loops of TryNext return at the first match).
FirstMatch(cs, replica) ==
    IF \E i \in DOMAIN cs : cs[i].args.Replica = replica
    THEN CHOOSE i \in DOMAIN cs :
            /\ cs[i].args.Replica = replica
            /\ \A j \in 1..(i - 1) : cs[j].args.Replica # replica
    ELSE 0

\* The local slice oc TryNext builds when the replica is found at index i of
\* orderedClients: make() gives len(orderedClients) zero clients, and the three
\* appends add the client, those before it and those after it.
TryNextLocalSlice(oc, i) ==
    [k \in 1..Len(oc) |-> ZeroClient]
        \o <<oc[i]>> \o SubSeq(oc, 1, i - 1) \o SubSeq(oc, i + 1, Len(oc))

\* TryNext whose re-insertion evicts nothing.
TryNextNoEvict(oc, all, replica) ==
    IF Len(oc) = 0
    THEN [err |-> ErrExhausted, orderedClients |-> oc, local |-> <<>>]
    ELSE IF replica.ReplicaID = 0
    THEN [err |-> ErrNilLeader, orderedClients |-> oc, local |-> <<>>]
    ELSE IF FirstMatch(oc, replica) # 0
    THEN [err |-> "nil", orderedClients |-> oc,
          local |-> TryNextLocalSlice(oc, FirstMatch(oc, replica))]
    ELSE IF FirstMatch(all, replica) # 0
    THEN [err |-> "nil",
          orderedClients |-> <<all[FirstMatch(all, replica)]>> \o oc,
          local |-> <<>>]
    ELSE [err |-> ErrNoClient, orderedClients |-> oc, local |-> <<>>]

\* TryNext that evicts the last client also when it finds no client to insert.
TryNextEvictOnMiss(oc, all, replica) ==
    IF Len(oc) = 0
    THEN [err |-> ErrExhausted, orderedClients |-> oc, local |-> <<>>]
    ELSE IF replica.ReplicaID = 0
    THEN [err |-> ErrNilLeader, orderedClients |-> oc, local |-> <<>>]
    ELSE IF FirstMatch(oc, replica) # 0
    THEN [err |-> "nil", orderedClients |-> oc,
          local |-> TryNextLocalSlice(oc, FirstMatch(oc, replica))]
    ELSE IF FirstMatch(all, replica) # 0
    THEN [err |-> "nil",
          orderedClients |-> <<all[FirstMatch(all, replica)]>>
                                \o SubSeq(oc, 1, Len(oc) - 1),
          local |-> <<>>]
    ELSE [err |-> ErrNoClient, orderedClients |-> SubSeq(oc, 1, Len(oc) - 1),
          local |-> <<>>]

\* TryNext without the test for replica id 0.
TryNextNoZeroCheck(oc, all, replica) ==
    IF Len(oc) = 0
    THEN [err |-> ErrExhausted, orderedClients |-> oc, local |-> <<>>]
    ELSE IF FirstMatch(oc, replica) # 0
    THEN [err |-> "nil", orderedClients |-> oc,
          local |-> TryNextLocalSlice(oc, FirstMatch(oc, replica))]
    ELSE IF FirstMatch(all, replica) # 0
    THEN [err |-> "nil",
          orderedClients |-> <<all[FirstMatch(all, replica)]>>
                                \o SubSeq(oc, 1, Len(oc) - 1),
          local |-> <<>>]
    ELSE [err |-> ErrNoClient, orderedClients |-> oc, local |-> <<>>]

\* TryNext that, for a replica found in orderedClients, puts a copy of its
\* client in front and drops the last client, the found one staying in place.
TryNextDuplicates(oc, all, replica) ==
    IF Len(oc) = 0
    THEN [err |-> ErrExhausted, orderedClients |-> oc, local |-> <<>>]
    ELSE IF replica.ReplicaID = 0
    THEN [err |-> ErrNilLeader, orderedClients |-> oc, local |-> <<>>]
    ELSE IF FirstMatch(oc, replica) # 0
    THEN [err |-> "nil",
          orderedClients |-> <<oc[FirstMatch(oc, replica)]>>
                                \o SubSeq(oc, 1, Len(oc) - 1),
          local |-> TryNextLocalSlice(oc, FirstMatch(oc, replica))]
    ELSE IF FirstMatch(all, replica) # 0
    THEN [err |-> "nil",
          orderedClients |-> <<all[FirstMatch(all, replica)]>>
                                \o SubSeq(oc, 1, Len(oc) - 1),
          local |-> <<>>]
    ELSE [err |-> ErrNoClient, orderedClients |-> oc, local |-> <<>>]

\* TryNext that assigns the local slice oc of its first loop to orderedClients.
TryNextStoresLocal(oc, all, replica) ==
    IF Len(oc) = 0
    THEN [err |-> ErrExhausted, orderedClients |-> oc, local |-> <<>>]
    ELSE IF replica.ReplicaID = 0
    THEN [err |-> ErrNilLeader, orderedClients |-> oc, local |-> <<>>]
    ELSE IF FirstMatch(oc, replica) # 0
    THEN [err |-> "nil",
          orderedClients |-> TryNextLocalSlice(oc, FirstMatch(oc, replica)),
          local |-> TryNextLocalSlice(oc, FirstMatch(oc, replica))]
    ELSE IF FirstMatch(all, replica) # 0
    THEN [err |-> "nil",
          orderedClients |-> <<all[FirstMatch(all, replica)]>>
                                \o SubSeq(oc, 1, Len(oc) - 1),
          local |-> <<>>]
    ELSE [err |-> ErrNoClient, orderedClients |-> oc, local |-> <<>>]

\* TryNext that, on an exhausted transport, puts the client of a replica of
\* the full set back.
TryNextResurrects(oc, all, replica) ==
    IF replica.ReplicaID = 0
    THEN [err |-> ErrNilLeader, orderedClients |-> oc, local |-> <<>>]
    ELSE IF FirstMatch(oc, replica) # 0
    THEN [err |-> "nil", orderedClients |-> oc,
          local |-> TryNextLocalSlice(oc, FirstMatch(oc, replica))]
    ELSE IF FirstMatch(all, replica) # 0
    THEN [err |-> "nil",
          orderedClients |-> <<all[FirstMatch(all, replica)]>>
                                \o SubSeq(oc, 1, Len(oc) - 1),
          local |-> <<>>]
    ELSE [err |-> ErrNoClient, orderedClients |-> oc, local |-> <<>>]

\* TryNext that answers replica id 0 with the error of an unknown replica.
TryNextOneError(oc, all, replica) ==
    IF Len(oc) = 0
    THEN [err |-> ErrExhausted, orderedClients |-> oc, local |-> <<>>]
    ELSE IF replica.ReplicaID = 0
    THEN [err |-> ErrNoClient, orderedClients |-> oc, local |-> <<>>]
    ELSE IF FirstMatch(oc, replica) # 0
    THEN [err |-> "nil", orderedClients |-> oc,
          local |-> TryNextLocalSlice(oc, FirstMatch(oc, replica))]
    ELSE IF FirstMatch(all, replica) # 0
    THEN [err |-> "nil",
          orderedClients |-> <<all[FirstMatch(all, replica)]>>
                                \o SubSeq(oc, 1, Len(oc) - 1),
          local |-> <<>>]
    ELSE [err |-> ErrNoClient, orderedClients |-> oc, local |-> <<>>]

\* grpcTransport.TryNext: the error returned ("nil" for none), the value of
\* gt.orderedClients afterwards, and the local slice oc of the first loop
\* (which is not stored anywhere).
TryNextResult(oc, all, replica) ==
    IF IsExhaustedResult(oc)
    THEN [err |-> ErrExhausted, orderedClients |-> oc, local |-> <<>>]
    ELSE IF replica.ReplicaID = 0
    THEN [err |-> ErrNilLeader, orderedClients |-> oc, local |-> <<>>]
    ELSE IF FirstMatch(oc, replica) # 0
    THEN [err |-> "nil", orderedClients |-> oc,
          local |-> TryNextLocalSlice(oc, FirstMatch(oc, replica))]
    ELSE IF FirstMatch(all, replica) # 0
    THEN [err |-> "nil",
          orderedClients |-> <<all[FirstMatch(all, replica)]>>
                                \o SubSeq(oc, 1, Len(oc) - 1),
          local |-> <<>>]
    ELSE [err |-> ErrNoClient, orderedClients |-> oc, local |-> <<>>]

\* ---------------------------------------------------------- senderTransport
\* senderTransport.IsExhausted
SenderIsExhaustedResult(c) == c

\* A senderTransport whose SendNext does not look at called.
SenderSendNextNoGuard(c) == FALSE

\* The guard that opens senderTransport.SendNext: it panics ("called an
\* exhausted transport") when called is set.
SenderSendNextPanics(c) == c

\* A senderTransport.SendNext without the test of br.Error.
SenderSendNextNoSanity(ret) ==
    [panic |-> FALSE,
     call |-> NewBatchCall(IF ret.pErr # "nil" \/ ret.br = "reply+error"
                           THEN "reply+error" ELSE "reply",
                           "nil")]

\* A senderTransport.SendNext that reports the error of sender.Send as the
\* BatchCall's Err and leaves the reply as it came.
SenderSendNextErrAsErr(ret) ==
    LET br == IF ret.br = "nil" THEN "reply" ELSE ret.br
    IN  IF br = "reply+error"
        THEN [panic |-> TRUE, call |-> NoBatchCall]
        ELSE [panic |-> FALSE, call |-> NewBatchCall("reply", ret.pErr)]

\* senderTransport.SendNext from the return of sender.Send on: whether it
\* panics (ErrorUnexpectedlySet) and the BatchCall it sends on done otherwise.
SenderSendNextResult(ret) ==
    LET br == IF ret.br = "nil" THEN "reply" ELSE ret.br
    IN  IF br = "reply+error"
        THEN [panic |-> TRUE, call |-> NoBatchCall]
        ELSE [panic |-> FALSE,
              call |-> NewBatchCall(IF ret.pErr # "nil" THEN "reply+error" ELSE "reply",
                                    "nil")]

\* ------------------------------------------------------------- chan BatchCall
\* A send on the channel completes at once when the buffer has room.
HasRoom(buf, cap) == Len(buf) < cap

\* A blocked send completes when the buffer has room again, or, on an
\* unbuffered channel, by handing the value to a receiver.
CanCompleteSend(buf, cap) == HasRoom(buf, cap) \/ cap = 0

\* The buffer after a send of item completed (an unbuffered channel keeps
\* nothing: the receiver has the value).
AfterSend(buf, cap, item) == IF cap = 0 THEN buf ELSE Append(buf, item)

\* ------------------------------------------------------------------ records
\* The record of a Transport call: the method, the replica passed (TryNext),
\* the error returned ("nil" for none, "panic" when the call panicked), the
\* address returned (SendNext), the boolean returned (IsExhausted), the client
\* dispatched to (grpc SendNext) and orderedClients as the call found it.
OpRecord(op, replica, err, addr, exhausted, client, before) ==
    [op |-> op, replica |-> replica, err |-> err, addr |-> addr,
     exhausted |-> exhausted, client |-> client, before |-> before]

NoOp == OpRecord("none", ZeroDescriptor, "nil", 0, FALSE, ZeroClient, <<>>)

\* The record of one dispatched SendNext: whether it runs in the caller (local
\* server, sender) or in its own goroutine, where it stands ("rpc": a
\* goroutine that has not sent yet; "send": the caller waiting at done <- with
\* the BatchCall out; "done": finished), and how many BatchCalls it has sent
\* on done.
CallRecord(inCaller, at, out, written) ==
    [inCaller |-> inCaller, pc |-> at, out |-> out, written |-> written]

\* The call record after Batch (or sender.Send) returned bc and the call came
\* to done <- bc with the buffer buf: sent at once when there is room.
AtSend(inCaller, bc, buf, cap) ==
    IF HasRoom(buf, cap)
    THEN CallRecord(inCaller, "done", NoBatchCall, 1)
    ELSE CallRecord(inCaller, "send", bc, 0)

\* The number of SendNext calls that have returned to the caller.
SendNextCompleted == Len(calls) - (IF pc = "blocked" THEN 1 ELSE 0)

\* The arguments and environment of one grpcTransportFactory call: the
\* ReplicaSlice, what GRPCDial returns for each replica and what IsConnHealthy
\* returns for it.
NewFactoryCall(rs, dial, health) == [replicas |-> rs, dial |-> dial, health |-> health]

NoFactoryCall == NewFactoryCall(<<>>, <<>>, <<>>)

\* ------------------------------------------------------------------ storage
\* A slice header: the array it points into ("built": the array the factory
\* allocated; "own": an array allocated since), the offset of its first
\* element in that array, its length and its capacity.
NewSlice(arr, off, len, cap) == [arr |-> arr, off |-> off, len |-> len, cap |-> cap]

NilSlice == NewSlice("built", 0, 0, 0)

\* The arrays reachable from the transport.  An array no slice of the
\* transport points into any more is dropped.
NewHeap(built, own) == [built |-> built, own |-> own]

NoHeap == NewHeap(<<>>, <<>>)

\* The elements a slice holds: s[0], ..., s[len(s)-1].
View(h, s) == [i \in 1..s.len |-> h[s.arr][s.off + i]]

\* s[1:]
Reslice1(s) == NewSlice(s.arr, s.off + 1, s.len - 1, s.cap - 1)

\* append(s, xs...) for a slice s of the array a: the elements are written
\* into a behind s when the capacity of s takes them, and into a newly
\* allocated array, which gets the elements of s too, when it does not.
GoAppend(a, s, xs) ==
    IF s.len + Len(xs) <= s.cap
    THEN [fresh |-> FALSE,
          array |-> [i \in DOMAIN a |->
                        IF i > s.off + s.len /\ i <= s.off + s.len + Len(xs)
                        THEN xs[i - s.off - s.len] ELSE a[i]],
          slice |-> NewSlice(s.arr, s.off, s.len + Len(xs), s.cap)]
    ELSE [fresh |-> TRUE,
          array |-> [i \in 1..s.len |-> a[s.off + i]] \o xs,
          slice |-> NewSlice("own", 0, s.len + Len(xs), s.len + Len(xs))]

\* TryNext that re-inserts without allocating: it shifts the elements of
\* orderedClients up by one in their array and writes the client in front.
TryNextStoreInPlace(h, oc, all, replica) ==
    LET ocv  == View(h, oc)
        allv == View(h, all)
        r    == TryNextResult(ocv, allv, replica)
    IN  IF r.err = "nil" /\ FirstMatch(ocv, replica) = 0
        THEN LET shifted == <<allv[FirstMatch(allv, replica)]>>
                               \o SubSeq(ocv, 1, Len(ocv) - 1)
                 written == [i \in DOMAIN h[oc.arr] |->
                               IF i > oc.off /\ i <= oc.off + oc.len
                               THEN shifted[i - oc.off] ELSE h[oc.arr][i]]
             IN  [heap |-> [h EXCEPT ![oc.arr] = written], ocRef |-> oc]
        ELSE [heap |-> h, ocRef |-> oc]

\* What TryNext does to storage.  Only the re-insertion of line 233 assigns
\* a field: append onto the literal []batchClient{c}, a slice of length and
\* capacity 1 in an array of its own, of the elements orderedClients[:len-1]
\* read through the header of orderedClients.  The array orderedClients had
\* to itself before, if any, is garbage afterwards.  The slice oc of the
\* first loop is local and is dropped.  The capacity append gives a new array
\* is taken to be the length asked for; nothing reads it.
TryNextStore(h, oc, all, replica) ==
    LET ocv  == View(h, oc)
        allv == View(h, all)
        r    == TryNextResult(ocv, allv, replica)
    IN  IF r.err = "nil" /\ FirstMatch(ocv, replica) = 0
        THEN LET c   == allv[FirstMatch(allv, replica)]
                 app == GoAppend(<<c>>, NewSlice("own", 0, 1, 1),
                                 SubSeq(ocv, 1, Len(ocv) - 1))
             IN  [heap |-> NewHeap(h.built, app.array), ocRef |-> app.slice]
        ELSE [heap |-> h, ocRef |-> oc]

\* --------------------------------------------------------------------- Init
Init ==
    /\ phase = "init"
    /\ kind = "none"
    /\ orderedClients = <<>>
    /\ allOrderedClients = <<>>
    /\ called = FALSE
    /\ pc = "idle"
    /\ calls = <<>>
    /\ done = <<>>
    /\ doneCap \in 0..MaxChanCap
    /\ lastOp = NoOp
    /\ tryNextCalled = FALSE
    /\ sentNoRetry = {}
    /\ dispatches = [r \in ReplicaDescriptors |-> 0]
    /\ sends = <<>>
    /\ closed = FALSE
    /\ harness = "off"
    /\ clients = <<>>
    /\ nHealthy = 0
    /\ splitInput = <<>>
    /\ factoryCall = NoFactoryCall
    /\ factoryErr = "none"
    /\ heap = NoHeap
    /\ ocRef = NilSlice
    /\ allRef = NilSlice

\* ---------------------------------------------------------------- factories
\* grpcTransportFactory(opts, rpcContext, replicas, args), for a ReplicaSlice
\* of distinct replicas and any outcome of the dials and health checks.
GrpcFactory ==
    /\ phase = "init"
    /\ \E replicas \in DistinctSeqs(ReplicaDescriptors, MaxReplicas) :
       \E dial \in [DOMAIN replicas -> {"ok", "breakerOpen", "error"}],
          health \in [DOMAIN replicas -> BOOLEAN] :
          LET r == grpcTransportFactory(replicas, dial, health)
          IN  IF r.err # "nil"
              THEN /\ phase' = "failed"
                   /\ UNCHANGED <<kind, orderedClients, allOrderedClients>>
              ELSE /\ phase' = "open"
                   /\ kind' = "grpc"
                   /\ orderedClients' = r.clients
                   /\ allOrderedClients' = r.clients
    /\ UNCHANGED <<called, pc, calls, done, doneCap, lastOp, tryNextCalled,
                   sentNoRetry, dispatches>>
    /\ UNCHANGED <<sends, closed>>
    /\ UNCHANGED harnessVars
    /\ UNCHANGED storageVars

\* The TransportFactory returned by SenderTransportFactory(tracer, sender).
SenderFactory ==
    /\ phase = "init"
    /\ phase' = "open"
    /\ kind' = "sender"
    /\ called' = FALSE
    /\ UNCHANGED <<orderedClients, allOrderedClients, pc, calls, done, doneCap,
                   lastOp, tryNextCalled, sentNoRetry, dispatches>>
    /\ UNCHANGED <<sends, closed>>
    /\ UNCHANGED harnessVars
    /\ UNCHANGED storageVars

\* The caller is between two Transport calls on a live transport.
CallerReady(k) == phase = "open" /\ kind = k /\ pc = "idle"

\* -------------------------------------------------------------- grpcTransport
\* grpcTransport.IsExhausted
IsExhausted ==
    /\ CallerReady("grpc")
    /\ lastOp' = OpRecord("IsExhausted", ZeroDescriptor, "nil", 0,
                          IsExhaustedResult(orderedClients), ZeroClient, orderedClients)
    /\ UNCHANGED <<phase, kind, orderedClients, allOrderedClients, called,
                   pc, calls, done, doneCap, tryNextCalled, sentNoRetry, dispatches>>
    /\ UNCHANGED <<sends, closed>>
    /\ UNCHANGED harnessVars
    /\ UNCHANGED storageVars

\* grpcTransport.SendNext.  On an empty orderedClients the index expression
\* panics.  isLocal is GetLocalInternalServerForAddr(addr) != nil with
\* enableLocalCalls set.  The local path calls Batch and sends on done before
\* it returns: the send completes at once when done has room and blocks the
\* caller otherwise.  The other path starts a goroutine and returns.
SendNextCall ==
    /\ CallerReady("grpc")
    /\ IF Len(orderedClients) = 0
       THEN /\ phase' = "panicked"
            /\ lastOp' = OpRecord("SendNext", ZeroDescriptor, "panic", 0, FALSE,
                                  ZeroClient, orderedClients)
            /\ UNCHANGED <<orderedClients, pc, calls, done, sentNoRetry, dispatches>>
       ELSE LET popped == SendNextPop(orderedClients)
                client == popped.client
                addr   == client.remoteAddr
            IN  /\ orderedClients' = popped.orderedClients
                /\ sentNoRetry' = sentNoRetry \cup {client.args.Replica}
                /\ dispatches' = [dispatches EXCEPT ![client.args.Replica] = @ + 1]
                /\ lastOp' = OpRecord("SendNext", ZeroDescriptor, "nil", addr, FALSE,
                                      client, orderedClients)
                /\ phase' = phase
                /\ \E isLocal \in BOOLEAN :
                      IF isLocal
                      THEN \E bc \in BatchReturns :
                              LET call == AtSend(TRUE, bc, done, doneCap)
                              IN  /\ calls' = Append(calls, call)
                                  /\ done' = IF call.pc = "done"
                                             THEN AfterSend(done, doneCap, bc)
                                             ELSE done
                                  /\ pc' = IF call.pc = "done" THEN "idle" ELSE "blocked"
                      ELSE /\ calls' = Append(calls,
                                         CallRecord(FALSE, "rpc", NoBatchCall, 0))
                           /\ UNCHANGED <<pc, done>>
    /\ UNCHANGED <<kind, allOrderedClients, called, doneCap, tryNextCalled>>
    /\ UNCHANGED <<sends, closed>>
    /\ UNCHANGED harnessVars

\* grpcTransport.SendNext where the storage of the slices is not tracked.
SendNext == SendNextCall /\ UNCHANGED storageVars

\* A goroutine that sends only when Batch returned a reply.
GoroutineSendsOnlyReply(bc) == bc.Reply # "nil"

\* Whether the goroutine sends on done after Batch returned bc: the send
\* stands after the if reply != nil block, so it does whatever was returned.
GoroutineSends(bc) == TRUE

\* The goroutine of call k runs to its end: client.client.Batch returns bc (the
\* Verify loop only logs) and done <- BatchCall{reply, err} completes.  Nothing
\* reads where a goroutine stands before that, so a goroutine still inside
\* Batch and one waiting at the send are one state, "rpc".
GoroutineFinish(k) ==
    /\ phase = "open"
    /\ k \in DOMAIN calls
    /\ calls[k].pc = "rpc"
    /\ \E bc \in BatchReturns :
          IF GoroutineSends(bc)
          THEN /\ CanCompleteSend(done, doneCap)
               /\ done' = AfterSend(done, doneCap, bc)
               /\ calls' = [calls EXCEPT ![k].pc = "done", ![k].written = @ + 1]
          ELSE /\ done' = done
               /\ calls' = [calls EXCEPT ![k].pc = "done"]
    /\ UNCHANGED <<phase, kind, orderedClients, allOrderedClients, called,
                   pc, doneCap, lastOp, tryNextCalled, sentNoRetry, dispatches>>
    /\ UNCHANGED <<sends, closed>>
    /\ UNCHANGED harnessVars
    /\ UNCHANGED storageVars

\* The send done <- BatchCall the caller is blocked in completes, and SendNext
\* returns.
CallerSend ==
    /\ phase = "open"
    /\ pc = "blocked"
    /\ calls[Len(calls)].pc = "send"
    /\ CanCompleteSend(done, doneCap)
    /\ done' = AfterSend(done, doneCap, calls[Len(calls)].out)
    /\ calls' = [calls EXCEPT ![Len(calls)].pc = "done",
                              ![Len(calls)].out = NoBatchCall,
                              ![Len(calls)].written = @ + 1]
    /\ pc' = "idle"
    /\ UNCHANGED <<phase, kind, orderedClients, allOrderedClients, called,
                   doneCap, lastOp, tryNextCalled, sentNoRetry, dispatches>>
    /\ UNCHANGED <<sends, closed>>
    /\ UNCHANGED harnessVars
    /\ UNCHANGED storageVars

\* The reader of done takes the next BatchCall out of the buffer.
Recv ==
    /\ phase = "open"
    /\ Len(done) > 0
    /\ done' = Tail(done)
    /\ UNCHANGED <<phase, kind, orderedClients, allOrderedClients, called,
                   pc, calls, doneCap, lastOp, tryNextCalled, sentNoRetry, dispatches>>
    /\ UNCHANGED <<sends, closed>>
    /\ UNCHANGED harnessVars
    /\ UNCHANGED storageVars

\* grpcTransport.TryNext(replica)
TryNextCall(replica) ==
    /\ CallerReady("grpc")
    /\ LET r == TryNextResult(orderedClients, allOrderedClients, replica)
       IN  /\ orderedClients' = r.orderedClients
           /\ lastOp' = OpRecord("TryNext", replica, r.err, 0, FALSE, ZeroClient,
                                 orderedClients)
           /\ sentNoRetry' = IF r.err = "nil" THEN sentNoRetry \ {replica}
                             ELSE sentNoRetry
    /\ tryNextCalled' = TRUE
    /\ UNCHANGED <<phase, kind, allOrderedClients, called, pc, calls, done, doneCap,
                   dispatches>>
    /\ UNCHANGED <<sends, closed>>
    /\ UNCHANGED harnessVars

\* grpcTransport.TryNext where the storage of the slices is not tracked.
TryNext(replica) == TryNextCall(replica) /\ UNCHANGED storageVars

\* grpcTransport.Close: an empty body.  Nothing of the transport changes; the
\* history notes that Close was called.
Close ==
    /\ CallerReady("grpc")
    /\ lastOp' = OpRecord("Close", ZeroDescriptor, "nil", 0, FALSE, ZeroClient,
                          orderedClients)
    /\ UNCHANGED <<phase, kind, orderedClients, allOrderedClients, called,
                   pc, calls, done, doneCap, tryNextCalled, sentNoRetry, dispatches>>
    /\ closed' = TRUE
    /\ UNCHANGED sends
    /\ UNCHANGED harnessVars
    /\ UNCHANGED storageVars

\* ------------------------------------------------------------ senderTransport
\* senderTransport.IsExhausted
SenderIsExhausted ==
    /\ CallerReady("sender")
    /\ lastOp' = OpRecord("IsExhausted", ZeroDescriptor, "nil", 0,
                          SenderIsExhaustedResult(called), ZeroClient, <<>>)
    /\ UNCHANGED <<phase, kind, orderedClients, allOrderedClients, called,
                   pc, calls, done, doneCap, tryNextCalled, sentNoRetry, dispatches>>
    /\ UNCHANGED <<sends, closed>>
    /\ UNCHANGED harnessVars
    /\ UNCHANGED storageVars

\* senderTransport.SendNext: panics when already called; otherwise sets called,
\* calls sender.Send, panics when the reply's Error is already set, and sends
\* BatchCall{Reply: br} on done before it returns "".
SenderSendNext ==
    /\ CallerReady("sender")
    /\ IF SenderSendNextPanics(called)
       THEN /\ phase' = "panicked"
            /\ lastOp' = OpRecord("SendNext", ZeroDescriptor, "panic", 0, FALSE,
                                  ZeroClient, <<>>)
            /\ UNCHANGED <<called, pc, calls, done, sends>>
       ELSE /\ called' = TRUE
            /\ \E ret \in SenderReturns :
                  LET r == SenderSendNextResult(ret)
                      call == AtSend(TRUE, r.call, done, doneCap)
                  IN  /\ sends' = Append(sends, ret)
                      /\ IF r.panic
                         THEN /\ phase' = "panicked"
                              /\ lastOp' = OpRecord("SendNext", ZeroDescriptor, "panic",
                                                    0, FALSE, ZeroClient, <<>>)
                              /\ UNCHANGED <<pc, calls, done>>
                         ELSE /\ phase' = phase
                              /\ lastOp' = OpRecord("SendNext", ZeroDescriptor, "nil",
                                                    0, FALSE, ZeroClient, <<>>)
                              /\ calls' = Append(calls, call)
                              /\ done' = IF call.pc = "done"
                                         THEN AfterSend(done, doneCap, r.call)
                                         ELSE done
                              /\ pc' = IF call.pc = "done" THEN "idle" ELSE "blocked"
    /\ UNCHANGED <<kind, orderedClients, allOrderedClients, doneCap,
                   tryNextCalled, sentNoRetry, dispatches, closed>>
    /\ UNCHANGED harnessVars
    /\ UNCHANGED storageVars

\* senderTransport.Close: an empty body, as grpcTransport.Close.
SenderClose ==
    /\ CallerReady("sender")
    /\ lastOp' = OpRecord("Close", ZeroDescriptor, "nil", 0, FALSE, ZeroClient, <<>>)
    /\ UNCHANGED <<phase, kind, orderedClients, allOrderedClients, called,
                   pc, calls, done, doneCap, tryNextCalled, sentNoRetry, dispatches>>
    /\ closed' = TRUE
    /\ UNCHANGED sends
    /\ UNCHANGED harnessVars
    /\ UNCHANGED storageVars

\* --------------------------------------------------------------------- Spec
Next ==
    \/ GrpcFactory
    \/ SenderFactory
    \/ IsExhausted
    \/ SendNext
    \/ \E k \in 1..MaxReplicas : GoroutineFinish(k)
    \/ CallerSend
    \/ Recv
    \/ \E replica \in TryNextArguments : TryNext(replica)
    \/ Close
    \/ SenderIsExhausted
    \/ SenderSendNext
    \/ SenderClose

Spec == Init /\ [][Next]_vars

\* ----------------------------------------------------------------- LiveSpec
\* The grpc transport grpcTransportFactory builds for the replicas of the
\* range in the order of their ids, every dial succeeding and every connection
\* healthy, used by a caller that keeps the precondition of SendNext (it asks
\* IsExhausted first, so that no call panics).  Every goroutine runs to its
\* end once the channel can take its BatchCall, a caller waiting at the send
\* gets through once it can, and the channel is read.
LiveReplicas ==
    [i \in 1..(IF MaxReplicas < MaxReplicaID + 1 THEN MaxReplicas ELSE MaxReplicaID + 1)
        |-> NewReplicaDescriptor(i, i, i - 1)]

LiveInit ==
    /\ phase = "open"
    /\ kind = "grpc"
    /\ orderedClients = grpcTransportFactory(LiveReplicas,
                            [i \in DOMAIN LiveReplicas |-> "ok"],
                            [i \in DOMAIN LiveReplicas |-> TRUE]).clients
    /\ allOrderedClients = orderedClients
    /\ called = FALSE
    /\ pc = "idle"
    /\ calls = <<>>
    /\ done = <<>>
    /\ doneCap \in 0..MaxChanCap
    /\ lastOp = NoOp
    /\ tryNextCalled = FALSE
    /\ sentNoRetry = {}
    /\ dispatches = [r \in ReplicaDescriptors |-> 0]
    /\ sends = <<>>
    /\ closed = FALSE
    /\ harness = "off"
    /\ clients = <<>>
    /\ nHealthy = 0
    /\ splitInput = <<>>
    /\ factoryCall = NoFactoryCall
    /\ factoryErr = "none"
    /\ heap = NoHeap
    /\ ocRef = NilSlice
    /\ allRef = NilSlice

SendNextChecked == ~IsExhaustedResult(orderedClients) /\ SendNext

LiveNext ==
    \/ IsExhausted
    \/ SendNextChecked
    \/ \E k \in 1..MaxReplicas : GoroutineFinish(k)
    \/ CallerSend
    \/ Recv
    \/ \E replica \in TryNextArguments : TryNext(replica)
    \/ Close

LiveSpec ==
    /\ LiveInit
    /\ [][LiveNext]_vars
    /\ \A k \in 1..MaxReplicas : WF_vars(GoroutineFinish(k))
    /\ WF_vars(CallerSend)
    /\ WF_vars(Recv)

\* ------------------------------------------------- splitHealthy on its own
\* Every batchClient a slice may hold.
BatchClients ==
    { NewBatchClient(AddressOf(r), r, h) : r \in ReplicaDescriptors, h \in BOOLEAN }

\* A call splitHealthy(clients) on any slice of at most MaxReplicas clients;
\* no transport is built.
SplitInit ==
    /\ phase = "none"
    /\ kind = "none"
    /\ orderedClients = <<>>
    /\ allOrderedClients = <<>>
    /\ called = FALSE
    /\ pc = "idle"
    /\ calls = <<>>
    /\ done = <<>>
    /\ doneCap = 0
    /\ lastOp = NoOp
    /\ tryNextCalled = FALSE
    /\ sentNoRetry = {}
    /\ dispatches = [r \in ReplicaDescriptors |-> 0]
    /\ sends = <<>>
    /\ closed = FALSE
    /\ harness = "call"
    /\ clients \in UNION { [1..n -> BatchClients] : n \in 0..MaxReplicas }
    /\ splitInput = clients
    /\ nHealthy = 0
    /\ factoryCall = NoFactoryCall
    /\ factoryErr = "none"
    /\ heap = NoHeap
    /\ ocRef = NilSlice
    /\ allRef = NilSlice

\* splitHealthy(clients) runs: the slice is rearranged in place and the count
\* returned.
SplitHealthyCall ==
    /\ harness = "call"
    /\ LET r == splitHealthy(clients)
       IN  /\ clients' = r.clients
           /\ nHealthy' = r.nHealthy
    /\ harness' = "returned"
    /\ UNCHANGED <<splitInput, factoryCall, factoryErr>>
    /\ UNCHANGED sessionVars
    /\ UNCHANGED storageVars

SplitNext == SplitHealthyCall

SpecSplit == SplitInit /\ [][SplitNext]_vars

\* ----------------------------------------- grpcTransportFactory on its own
\* What GRPCDial can return: a connection, an error caused by
\* circuit.ErrBreakerOpen, or one of two other errors.
DialReturns == {"ok", "breakerOpen", "errRefused", "errTimeout"}

\* A call grpcTransportFactory(opts, rpcContext, replicas, args) for any
\* ReplicaSlice of at most MaxReplicas distinct replicas and any outcome of
\* the dials and health checks.
FactoryInit ==
    /\ phase = "init"
    /\ kind = "none"
    /\ orderedClients = <<>>
    /\ allOrderedClients = <<>>
    /\ called = FALSE
    /\ pc = "idle"
    /\ calls = <<>>
    /\ done = <<>>
    /\ doneCap = 0
    /\ lastOp = NoOp
    /\ tryNextCalled = FALSE
    /\ sentNoRetry = {}
    /\ dispatches = [r \in ReplicaDescriptors |-> 0]
    /\ sends = <<>>
    /\ closed = FALSE
    /\ harness = "factory"
    /\ clients = <<>>
    /\ nHealthy = 0
    /\ splitInput = <<>>
    /\ \E rs \in DistinctSeqs(ReplicaDescriptors, MaxReplicas) :
       \E dial \in [DOMAIN rs -> DialReturns], health \in [DOMAIN rs -> BOOLEAN] :
          factoryCall = NewFactoryCall(rs, dial, health)
    /\ factoryErr = "none"
    /\ heap = NoHeap
    /\ ocRef = NilSlice
    /\ allRef = NilSlice

\* The factory runs: it returns (nil, err), or the transport and nil.
GrpcFactoryCall ==
    /\ harness = "factory"
    /\ LET r == grpcTransportFactory(factoryCall.replicas, factoryCall.dial,
                                     factoryCall.health)
       IN  /\ factoryErr' = r.err
           /\ IF r.err # "nil"
              THEN /\ phase' = "failed"
                   /\ UNCHANGED <<kind, orderedClients, allOrderedClients>>
              ELSE /\ phase' = "open"
                   /\ kind' = "grpc"
                   /\ orderedClients' = r.clients
                   /\ allOrderedClients' = r.clients
    /\ harness' = "factoryReturned"
    /\ UNCHANGED <<called, pc, calls, done, doneCap, lastOp, tryNextCalled,
                   sentNoRetry, dispatches, sends, closed>>
    /\ UNCHANGED <<clients, nHealthy, splitInput, factoryCall>>
    /\ UNCHANGED storageVars

FactoryNext == GrpcFactoryCall

SpecFactory == FactoryInit /\ [][FactoryNext]_vars

\* ------------------------------------------- a transport used without TryNext
\* The factory is called as in FactoryInit, and the transport it returns is
\* sent on until it is exhausted (and once more, which panics), the caller
\* asking IsExhausted as it likes and never calling TryNext.  The channel is
\* unbuffered, so that its reader is the receiver a send hands its value to.
DispatchNext ==
    \/ GrpcFactoryCall
    \/ IsExhausted
    \/ SendNext
    \/ \E k \in 1..MaxReplicas : GoroutineFinish(k)
    \/ CallerSend

SpecDispatch == FactoryInit /\ [][DispatchNext]_vars

\* ------------------------------------------------- a transport with storage
\* The zero-valued elements of an array of capacity cap behind its first n.
Padding(n, cap) == [i \in 1..(cap - n) |-> ZeroClient]

\* The transport as grpcTransportFactory returns it, for any ReplicaSlice of
\* at most MaxReplicas distinct replicas whose dials give a connection or an
\* open breaker: clients is made with capacity len(replicas), filled by
\* append within that capacity, sorted in place by splitHealthy, and both
\* fields of the transport get the one slice header.
StorageInit ==
    /\ phase = "open"
    /\ kind = "grpc"
    /\ \E rs \in DistinctSeqs(ReplicaDescriptors, MaxReplicas) :
       \E dial \in [DOMAIN rs -> {"ok", "breakerOpen"}],
          health \in [DOMAIN rs -> BOOLEAN] :
          LET r == grpcTransportFactory(rs, dial, health)
          IN  /\ clients = r.clients
              /\ heap = NewHeap(r.clients \o Padding(Len(r.clients), Len(rs)), <<>>)
              /\ allRef = NewSlice("built", 0, Len(r.clients), Len(rs))
    /\ ocRef = allRef
    /\ orderedClients = clients
    /\ allOrderedClients = clients
    /\ called = FALSE
    /\ pc = "idle"
    /\ calls = <<>>
    /\ done = <<>>
    /\ doneCap \in 0..MaxChanCap
    /\ lastOp = NoOp
    /\ tryNextCalled = FALSE
    /\ sentNoRetry = {}
    /\ dispatches = [r \in ReplicaDescriptors |-> 0]
    /\ sends = <<>>
    /\ closed = FALSE
    /\ harness = "storage"
    /\ nHealthy = 0
    /\ splitInput = <<>>
    /\ factoryCall = NoFactoryCall
    /\ factoryErr = "nil"

\* grpcTransport.SendNext with storage: gt.orderedClients[1:] moves the
\* header on by one element and writes nothing.
SendNextStored ==
    /\ SendNextCall
    /\ IF ocRef.len = 0
       THEN UNCHANGED storageVars
       ELSE /\ ocRef' = Reslice1(ocRef)
            /\ UNCHANGED <<heap, allRef>>

\* grpcTransport.TryNext with storage.
TryNextStored(replica) ==
    /\ TryNextCall(replica)
    /\ LET st == TryNextStore(heap, ocRef, allRef, replica)
       IN  /\ heap' = st.heap
           /\ ocRef' = st.ocRef
    /\ UNCHANGED allRef

StorageNext ==
    \/ IsExhausted
    \/ SendNextStored
    \/ \E k \in 1..MaxReplicas : GoroutineFinish(k)
    \/ CallerSend
    \/ Recv
    \/ \E replica \in TryNextArguments : TryNextStored(replica)
    \/ Close

SpecStorage == StorageInit /\ [][StorageNext]_vars

\* ==================================================================== claims
\* Some client of cs is stamped with replica r.
IsIn(cs, r) == \E i \in DOMAIN cs : cs[i].args.Replica = r

\* cs with the entry at index i moved to the front.
MovedToFront(cs, i) ==
    <<cs[i]>> \o SubSeq(cs, 1, i - 1) \o SubSeq(cs, i + 1, Len(cs))

\* C1: whenever TryNext(r) with r.ReplicaID # 0 finds r in remaining at index
\* i, it succeeds and remaining afterwards is remaining[i] followed by the
\* other entries in their previous order.
C1_MovesToFront ==
    (/\ lastOp.op = "TryNext"
     /\ lastOp.replica.ReplicaID # 0
     /\ IsIn(lastOp.before, lastOp.replica))
    => /\ lastOp.err = "nil"
       /\ \E i \in DOMAIN lastOp.before :
             /\ lastOp.before[i].args.Replica = lastOp.replica
             /\ orderedClients = MovedToFront(lastOp.before, i)

\* C2: when TryNext(r) returned no error and the caller's next Transport call
\* is SendNext, that SendNext dispatches to the client stamped with r and
\* returns its address.
C2_SendNextAfterTryNext ==
    [][(/\ lastOp.op = "TryNext"
        /\ lastOp.err = "nil"
        /\ lastOp'.op = "SendNext")
       => (/\ lastOp'.err = "nil"
           /\ lastOp'.client.args.Replica = lastOp.replica
           /\ lastOp'.addr = lastOp'.client.remoteAddr)]_vars

\* C3: whenever TryNext(r) with r.ReplicaID # 0 is called with remaining not
\* empty, r not in remaining and r in the full set, it succeeds and remaining
\* afterwards is r's client followed by the previous remaining without its
\* last entry, so the length of remaining is unchanged.
C3_ReinsertEvictsLast ==
    (/\ lastOp.op = "TryNext"
     /\ lastOp.replica.ReplicaID # 0
     /\ Len(lastOp.before) > 0
     /\ ~IsIn(lastOp.before, lastOp.replica)
     /\ IsIn(allOrderedClients, lastOp.replica))
    => /\ lastOp.err = "nil"
       /\ Len(orderedClients) = Len(lastOp.before)
       /\ orderedClients[1].args.Replica = lastOp.replica
       /\ \E i \in DOMAIN allOrderedClients : orderedClients[1] = allOrderedClients[i]
       /\ Tail(orderedClients) = SubSeq(lastOp.before, 1, Len(lastOp.before) - 1)

\* C3 witness: a re-insertion into a remaining of two entries, one of which
\* is evicted.
C3_Witness ==
    /\ lastOp.op = "TryNext"
    /\ lastOp.replica.ReplicaID # 0
    /\ Len(lastOp.before) = 2
    /\ ~IsIn(lastOp.before, lastOp.replica)
    /\ IsIn(allOrderedClients, lastOp.replica)
    /\ orderedClients = <<orderedClients[1], lastOp.before[1]>>

\* C4: TryNext naming a replica that is not in the full set returns an error
\* and leaves remaining as it was, entries and order.
C4_UnknownReplicaFails ==
    (/\ lastOp.op = "TryNext"
     /\ ~IsIn(allOrderedClients, lastOp.replica))
    => /\ lastOp.err # "nil"
       /\ orderedClients = lastOp.before

\* C4 witness: TryNext with a non-zero replica id unknown to a transport that
\* still has two clients to try.
C4_Witness ==
    /\ lastOp.op = "TryNext"
    /\ lastOp.replica.ReplicaID # 0
    /\ ~IsIn(allOrderedClients, lastOp.replica)
    /\ Len(lastOp.before) >= 2
    /\ lastOp.err = ErrNoClient

\* C5: TryNext with replica id 0 returns an error and changes neither
\* remaining nor the full set, also when a client of the full set is stamped
\* with replica id 0.
C5_ZeroReplicaIDFails ==
    [][\A r \in TryNextArguments :
          (r.ReplicaID = 0 /\ TryNext(r))
          => (/\ lastOp'.op = "TryNext"
              /\ lastOp'.err # "nil"
              /\ orderedClients' = orderedClients
              /\ allOrderedClients' = allOrderedClients)]_vars

\* C5 witness: TryNext with replica id 0 on a transport that is not exhausted
\* and whose remaining holds a client stamped with that very descriptor.
C5_Witness ==
    /\ lastOp.op = "TryNext"
    /\ lastOp.replica.ReplicaID = 0
    /\ IsIn(lastOp.before, lastOp.replica)
    /\ IsIn(allOrderedClients, lastOp.replica)
    /\ lastOp.err = ErrNilLeader
    /\ orderedClients = lastOp.before

\* C6: on a grpc transport built with N clients on which TryNext was never
\* called, IsExhausted returns true exactly when N SendNext calls have
\* completed (for N = 0: at once).
C6_ExhaustedIffAllSent ==
    (/\ kind = "grpc"
     /\ lastOp.op = "IsExhausted"
     /\ ~tryNextCalled)
    => (lastOp.exhausted <=> SendNextCompleted = Len(allOrderedClients))

\* C6 witness: IsExhausted returned true after the two or more clients of the
\* transport were all sent to, with no TryNext.
C6_Witness ==
    /\ kind = "grpc"
    /\ lastOp.op = "IsExhausted"
    /\ ~tryNextCalled
    /\ lastOp.exhausted
    /\ Len(allOrderedClients) >= 2
    /\ SendNextCompleted = Len(allOrderedClients)

\* C7: SendNext dispatches to a client a second time only if a TryNext naming
\* its replica returned no error since the previous dispatch to it.
C7_NoRepeatWithoutTryNext ==
    [][(kind = "grpc" /\ Len(calls') = Len(calls) + 1)
       => (/\ lastOp'.op = "SendNext"
           /\ lastOp'.client = orderedClients[1]
           /\ lastOp'.client.args.Replica \notin sentNoRetry)]_vars

\* C7 witness: a SendNext has just dispatched to a client for the second
\* time.
C7_Witness ==
    /\ lastOp.op = "SendNext"
    /\ lastOp.err = "nil"
    /\ kind = "grpc"
    /\ dispatches[lastOp.client.args.Replica] = 2

\* C8: every SendNext of a grpc transport that dispatched sends exactly one
\* BatchCall on done: never a second one, and in the end one, on the local
\* path and on the goroutine path, whatever the caller does meanwhile.
C8_ExactlyOneOutcome ==
    /\ [](\A k \in DOMAIN calls : calls[k].written <= 1)
    /\ \A k \in 1..MaxReplicas :
          [](  (kind = "grpc" /\ k \in DOMAIN calls)
            => <>[](k \in DOMAIN calls /\ calls[k].written = 1))

\* C8 witness: three calls were dispatched, goroutines and local calls among
\* them, and each has sent its one BatchCall.
C8_Witness ==
    /\ kind = "grpc"
    /\ Len(calls) = 3
    /\ \E j, k \in DOMAIN calls : calls[j].inCaller /\ ~calls[k].inCaller
    /\ \A k \in DOMAIN calls : calls[k].pc = "done" /\ calls[k].written = 1

\* C9: after splitHealthy the slice is the healthy clients of the input in
\* their input order followed by the unhealthy ones in their input order, and
\* the value returned is the number of healthy clients.
IsHealthy(c) == c.healthy

IsUnhealthy(c) == ~c.healthy

C9_StablePartition ==
    harness = "returned"
    => /\ clients = SelectSeq(splitInput, IsHealthy) \o SelectSeq(splitInput, IsUnhealthy)
       /\ nHealthy = Len(SelectSeq(splitInput, IsHealthy))
       /\ \A i \in DOMAIN clients : clients[i].healthy <=> i <= nHealthy

\* C9 witness: splitHealthy returned for a slice of three in which an
\* unhealthy client came before two healthy ones.
C9_Witness ==
    /\ harness = "returned"
    /\ Len(splitInput) = 3
    /\ ~splitInput[1].healthy
    /\ splitInput[2].healthy
    /\ splitInput[3].healthy
    /\ splitInput[2] # splitInput[3]
    /\ clients = <<splitInput[2], splitInput[3], splitInput[1]>>

\* C10: SendNext never blocks the caller on the result channel: the caller is
\* never inside SendNext waiting for the channel to be read.
C10_SendNextNeverBlocks == pc # "blocked"

\* C11: SendNext on an exhausted transport (orderedClients empty for the grpc
\* transport, called set for the senderTransport) panics: it returns no
\* address, sends nothing on done, and starts no call (no local Batch, no
\* goroutine, no sender.Send).
C11_SendNextOnExhaustedPanics ==
    [][(\/ (SendNext /\ IsExhaustedResult(orderedClients))
        \/ (SenderSendNext /\ SenderIsExhaustedResult(called)))
       => (/\ phase' = "panicked"
           /\ lastOp'.op = "SendNext"
           /\ lastOp'.err = "panic"
           /\ lastOp'.addr = 0
           /\ calls' = calls
           /\ done' = done
           /\ dispatches' = dispatches
           /\ called' = called
           /\ pc' = "idle")]_vars

\* C11 witness: a grpc transport of two or more clients panicked in the
\* SendNext that followed the dispatch to its last client.
C11_Witness ==
    /\ kind = "grpc"
    /\ phase = "panicked"
    /\ lastOp.op = "SendNext"
    /\ lastOp.err = "panic"
    /\ IsExhaustedResult(lastOp.before)
    /\ Len(allOrderedClients) >= 2
    /\ Len(calls) >= Len(allOrderedClients)

\* The clients the dial loop appends for a call fc when no dial aborts it: one
\* per replica whose dial returned a connection, in the order of the replicas,
\* stamped with the replica and carrying its address and health.
DialedClients(fc) ==
    LET entry(i) == [ok |-> fc.dial[i] = "ok",
                     c  |-> NewBatchClient(AddressOf(fc.replicas[i]), fc.replicas[i],
                                           fc.health[i])]
        IsOk(e)  == e.ok
        kept     == SelectSeq([i \in DOMAIN fc.replicas |-> entry(i)], IsOk)
    IN  [i \in DOMAIN kept |-> kept[i].c]

\* The dial results that are neither a connection nor a breaker-open error.
IsHardError(d) == d \notin {"ok", "breakerOpen"}

\* C12: the factory skips a replica whose dial fails with breaker-open,
\* returns the first other dial error and no transport, and otherwise sets
\* both orderedClients and allOrderedClients to the clients of the replicas
\* dialed, each stamped with its replica and health, healthy ones first and
\* the replicas' order kept within the healthy and within the unhealthy.
C12_FactoryBuildsPartitionedClients ==
    harness = "factoryReturned"
    => LET hard == SelectSeq(factoryCall.dial, IsHardError)
           dialed == DialedClients(factoryCall)
       IN  IF Len(hard) > 0
           THEN /\ factoryErr = hard[1]
                /\ phase = "failed"
                /\ kind = "none"
                /\ orderedClients = <<>>
                /\ allOrderedClients = <<>>
           ELSE /\ factoryErr = "nil"
                /\ phase = "open"
                /\ kind = "grpc"
                /\ allOrderedClients =
                      SelectSeq(dialed, IsHealthy) \o SelectSeq(dialed, IsUnhealthy)
                /\ orderedClients = allOrderedClients

\* C12 witness: of three replicas the first is skipped for an open breaker,
\* the second is unhealthy and the third healthy, and the transport holds the
\* third's client before the second's.
C12_Witness ==
    /\ harness = "factoryReturned"
    /\ Len(factoryCall.replicas) = 3
    /\ factoryCall.dial = <<"breakerOpen", "ok", "ok">>
    /\ factoryCall.health[2] = FALSE
    /\ factoryCall.health[3] = TRUE
    /\ factoryErr = "nil"
    /\ Len(orderedClients) = 2
    /\ orderedClients[1].args.Replica = factoryCall.replicas[3]
    /\ orderedClients[2].args.Replica = factoryCall.replicas[2]

\* C13: in every state of the transport, TryNext with replica id 0 returns
\* the invalid-replica error, TryNext with a non-zero replica that is not in
\* the full set returns the unknown-replica error, and the two differ.
C13_ErrorsDistinguished ==
    /\ ErrNilLeader # ErrNoClient
    /\ lastOp.op = "TryNext"
       => /\ lastOp.replica.ReplicaID = 0 => lastOp.err = ErrNilLeader
          /\ (/\ lastOp.replica.ReplicaID # 0
              /\ ~IsIn(allOrderedClients, lastOp.replica))
             => lastOp.err = ErrNoClient

\* C13 as it holds: on a transport that is not exhausted the two errors are
\* returned as stated and differ; on an exhausted transport TryNext returns
\* the exhausted error whatever the replica, so the two cases are not told
\* apart there.
C13_ErrorsDistinguishedUnlessExhausted ==
    /\ ErrNilLeader # ErrNoClient
    /\ ErrExhausted \notin {ErrNilLeader, ErrNoClient}
    /\ lastOp.op = "TryNext"
       => IF IsExhaustedResult(lastOp.before)
          THEN lastOp.err = ErrExhausted
          ELSE /\ lastOp.replica.ReplicaID = 0 => lastOp.err = ErrNilLeader
               /\ (/\ lastOp.replica.ReplicaID # 0
                   /\ ~IsIn(allOrderedClients, lastOp.replica))
                  => lastOp.err = ErrNoClient

\* C13 witness: TryNext with replica id 0 on a transport that still has
\* clients to try and none stamped with that descriptor.
C13_Witness ==
    /\ lastOp.op = "TryNext"
    /\ lastOp.replica.ReplicaID = 0
    /\ ~IsIn(allOrderedClients, lastOp.replica)
    /\ ~IsExhaustedResult(lastOp.before)
    /\ lastOp.err = ErrNilLeader

\* C14: exhaustion is permanent.  Once IsExhausted would return true
\* (orderedClients empty, or called set on a senderTransport) no step makes
\* it return false again; TryNext on an exhausted transport returns an error
\* for every replica, those of the full set included, and leaves
\* orderedClients empty.
C14_ExhaustionPermanent ==
    [][/\ (kind = "grpc" /\ IsExhaustedResult(orderedClients))
          => (kind' = "grpc" /\ IsExhaustedResult(orderedClients'))
       /\ (kind = "sender" /\ SenderIsExhaustedResult(called))
          => (kind' = "sender" /\ SenderIsExhaustedResult(called'))
       /\ \A r \in TryNextArguments :
             (IsExhaustedResult(orderedClients) /\ TryNext(r))
             => (/\ lastOp'.op = "TryNext"
                 /\ lastOp'.err # "nil"
                 /\ orderedClients' = <<>>)]_vars

\* C14 witness: TryNext, on a transport whose two or more clients were all
\* sent to, for a replica of the full set with a non-zero id: it returned the
\* exhausted error and orderedClients is still empty.
C14_Witness ==
    /\ lastOp.op = "TryNext"
    /\ IsExhaustedResult(lastOp.before)
    /\ lastOp.replica.ReplicaID # 0
    /\ IsIn(allOrderedClients, lastOp.replica)
    /\ Len(allOrderedClients) >= 2
    /\ lastOp.err = ErrExhausted
    /\ IsExhaustedResult(orderedClients)

\* What a senderTransport guarantees in every state, whatever sender.Send
\* returns: sender.Send is called once at most, and has been called exactly
\* when called is set; IsExhausted returns called; called is never reset; at
\* most one BatchCall is sent on done.
SenderOneSend ==
    /\ Len(sends') <= 1
    /\ called' <=> Len(sends') = 1
    /\ lastOp'.op = "IsExhausted" => (lastOp'.exhausted <=> called')
    /\ called => called'
    /\ Len(calls') <= 1
    /\ \A k \in DOMAIN calls' : calls'[k].written <= 1

\* The step is a first SendNext that, with what sender.Send returned, sends
\* on done one BatchCall whose Err is nil and whose Reply carries the error of
\* sender.Send, if any, as its embedded error.
SenderFirstSendDelivers ==
    /\ phase' = "open"
    /\ Len(calls') = 1
    /\ LET bc == IF pc' = "blocked" THEN calls'[1].out ELSE done'[Len(done')]
       IN  /\ bc.Err = "nil"
           /\ bc.Reply = IF sends'[1].pErr # "nil" THEN "reply+error" ELSE "reply"

\* C15: a senderTransport models exactly one send: IsExhausted is false
\* until the first SendNext and true from then on, the first SendNext calls
\* sender.Send once and sends exactly one BatchCall with Err unset (an error
\* of sender.Send is carried as the reply's Error), and sender.Send is never
\* called a second time.
C15_SenderModelsOneSend ==
    [][kind' = "sender"
       => /\ SenderOneSend
          /\ (~called /\ called') => SenderFirstSendDelivers
          /\ (called' /\ pc' = "idle")
             => (Len(calls') = 1 /\ calls'[1].written = 1)]_vars

\* C15 as it holds: as above, unless the reply sender.Send returns to the
\* first SendNext already has its Error set; then SendNext panics after the
\* one call of sender.Send and sends nothing on done.
C15_SenderModelsOneSendUnlessErrorSet ==
    [][kind' = "sender"
       => /\ SenderOneSend
          /\ (~called /\ called')
             => IF sends'[1].br = "reply+error"
                THEN phase' = "panicked" /\ calls' = calls /\ done' = done
                ELSE SenderFirstSendDelivers
          /\ (called' /\ pc' = "idle" /\ sends'[1].br # "reply+error")
             => (Len(calls') = 1 /\ calls'[1].written = 1)]_vars

\* C15 witness: sender.Send returned an error and no reply to the first
\* SendNext, the BatchCall with that error embedded in a fresh reply is in
\* the channel, and IsExhausted has returned true since.
C15_Witness ==
    /\ kind = "sender"
    /\ sends = <<[br |-> "nil", pErr |-> "err"]>>
    /\ Len(calls) = 1
    /\ calls[1].written = 1
    /\ done = <<NewBatchCall("reply+error", "nil")>>
    /\ lastOp.op = "IsExhausted"
    /\ lastOp.exhausted

\* sender.Send returned, to the one SendNext of a senderTransport, a reply
\* whose Error was already set.
SenderReplyHadError == Len(sends) = 1 /\ sends[1].br = "reply+error"

\* The senderTransport panicked on a reply whose Error was already set, and
\* sent nothing on done.
SenderAbortedOnReplyError ==
    /\ phase = "panicked"
    /\ lastOp.op = "SendNext"
    /\ lastOp.err = "panic"
    /\ calls = <<>>
    /\ done = <<>>

\* C16: whenever the call underlying a SendNext (sender.Send, the local
\* server's Batch, the grpc client's Batch) returns a reply whose Error is
\* already set, SendNext panics and the reply is not sent on done.
C16_ReplyErrorIsFatal ==
    /\ (kind = "sender" /\ SenderReplyHadError) => SenderAbortedOnReplyError
    /\ kind = "grpc"
       => /\ \A i \in DOMAIN done : done[i].Reply # "reply+error"
          /\ \A k \in DOMAIN calls : calls[k].out.Reply # "reply+error"

\* C16 as it holds: only the senderTransport makes that test.  A grpc
\* transport never panics over a reply (its one panic is SendNext on an
\* exhausted transport); it sends the reply on done as it came.
C16_ReplyErrorIsFatalForSender ==
    /\ (kind = "sender" /\ SenderReplyHadError) => SenderAbortedOnReplyError
    /\ (kind = "grpc" /\ phase = "panicked")
       => (lastOp.op = "SendNext" /\ IsExhaustedResult(lastOp.before))

\* C16 witness: a senderTransport panicked in its first SendNext because
\* sender.Send returned no error and a reply whose Error was set.
C16_Witness ==
    /\ kind = "sender"
    /\ sends = <<[br |-> "reply+error", pErr |-> "nil"]>>
    /\ called
    /\ SenderAbortedOnReplyError

\* C17: a Close on a transport on which Close was called before does not
\* return normally: it panics.
C17_SecondCloseAborts ==
    [][(closed /\ (Close \/ SenderClose)) => phase' = "panicked"]_vars

\* C18: in every state of a grpc transport built from distinct replicas,
\* whatever SendNext and TryNext calls were made, every entry of
\* orderedClients is a client of allOrderedClients and no client (and no
\* replica) occurs twice in orderedClients.
C18_RemainingSubsetNoDuplicates ==
    kind = "grpc"
    => /\ \A i \in DOMAIN orderedClients :
             \E j \in DOMAIN allOrderedClients :
                orderedClients[i] = allOrderedClients[j]
       /\ \A i, j \in DOMAIN orderedClients :
             i # j => /\ orderedClients[i] # orderedClients[j]
                      /\ orderedClients[i].args.Replica # orderedClients[j].args.Replica

\* C18 witness: after a dispatch, a TryNext naming the dispatched replica put
\* its client back in front of another client that was still to be tried.
C18_Witness ==
    /\ kind = "grpc"
    /\ lastOp.op = "TryNext"
    /\ lastOp.err = "nil"
    /\ dispatches[lastOp.replica] >= 1
    /\ Len(calls) >= 1
    /\ Len(orderedClients) = 2
    /\ orderedClients[1].args.Replica = lastOp.replica
    /\ orderedClients[2] = lastOp.before[1]
    /\ Len(allOrderedClients) = 3

\* C19: no step of a grpc transport makes orderedClients longer: a SendNext
\* that dispatches makes it shorter by one, and TryNext (whether it returns
\* an error or not), IsExhausted and Close leave its length as it is.  So
\* the SendNext calls that dispatched are never more than the clients the
\* transport was built with, whatever TryNext calls come between.
C19_RemainingNeverGrows ==
    [][kind = "grpc"
       => /\ Len(orderedClients') <= Len(orderedClients)
          /\ (SendNext /\ ~IsExhaustedResult(orderedClients))
             => (/\ Len(orderedClients') = Len(orderedClients) - 1
                 /\ Len(calls') = Len(calls) + 1)
          /\ ((\E r \in TryNextArguments : TryNext(r)) \/ IsExhausted \/ Close)
             => (/\ Len(orderedClients') = Len(orderedClients)
                 /\ calls' = calls)
          /\ Len(calls') + Len(orderedClients') = Len(allOrderedClients')
          /\ Len(calls') <= Len(allOrderedClients')]_vars

\* C19 witness: a transport of three clients is exhausted after three
\* dispatches, two of them to the same replica, which a TryNext had put back.
C19_Witness ==
    /\ kind = "grpc"
    /\ Len(allOrderedClients) = 3
    /\ Len(calls) = 3
    /\ IsExhaustedResult(orderedClients)
    /\ tryNextCalled
    /\ \E r \in ReplicaDescriptors : dispatches[r] = 2
    /\ lastOp.op = "SendNext"
    /\ lastOp.err = "nil"

\* The order splitHealthy gives the clients dialed for the call fc: the
\* healthy ones in the order of their replicas, then the unhealthy ones.
PartitionedClients(fc) ==
    SelectSeq(DialedClients(fc), IsHealthy) \o SelectSeq(DialedClients(fc), IsUnhealthy)

\* C20: on a transport on which TryNext is never called, the k-th SendNext
\* dispatches to, and returns the address of, the k-th client of the
\* health-partitioned order of the clients dialed (healthy before unhealthy,
\* the replicas' order within each); each client is dispatched to exactly
\* once, and IsExhausted is true exactly when all have been.
C20_DispatchInPartitionedOrder ==
    (kind = "grpc" /\ ~tryNextCalled /\ harness = "factoryReturned")
    => LET expected == PartitionedClients(factoryCall)
       IN  /\ Len(calls) <= Len(expected)
           /\ (lastOp.op = "SendNext" /\ lastOp.err = "nil")
              => /\ lastOp.client = expected[Len(calls)]
                 /\ lastOp.addr = expected[Len(calls)].remoteAddr
           /\ \A r \in ReplicaDescriptors :
                 dispatches[r] =
                    IF \E k \in 1..Len(calls) : expected[k].args.Replica = r
                    THEN 1 ELSE 0
           /\ lastOp.op = "IsExhausted"
              => (lastOp.exhausted <=> Len(calls) = Len(expected))

\* C20 witness: for replicas A (healthy), B (unhealthy), C (healthy), the
\* third SendNext has returned the address of B, after one dispatch to each
\* of A and C.
C20_Witness ==
    /\ kind = "grpc"
    /\ ~tryNextCalled
    /\ Len(factoryCall.replicas) = 3
    /\ factoryCall.dial = <<"ok", "ok", "ok">>
    /\ factoryCall.health = <<TRUE, FALSE, TRUE>>
    /\ Len(calls) = 3
    /\ lastOp.op = "SendNext"
    /\ lastOp.addr = AddressOf(factoryCall.replicas[2])
    /\ \A i \in 1..3 : dispatches[factoryCall.replicas[i]] = 1

\* C21: after construction no call changes the full set.  Whatever
\* IsExhausted, SendNext, TryNext and Close calls were made, re-insertions by
\* TryNext included, allOrderedClients read through its slice header holds
\* the clients the factory put there, in their order, and the header is the
\* one the factory set; orderedClients read through its header is what the
\* calls made it; and an IsExhausted call leaves orderedClients as it found
\* it.
C21_FullSetNeverChanges ==
    harness = "storage"
    => /\ View(heap, allRef) = clients
       /\ allOrderedClients = clients
       /\ allRef.arr = "built" /\ allRef.off = 0 /\ allRef.len = Len(clients)
       /\ View(heap, ocRef) = orderedClients
       /\ lastOp.op = "IsExhausted"
          => (orderedClients = lastOp.before /\ View(heap, ocRef) = lastOp.before)

\* C21 witness: after two dispatches from the array the factory built, a
\* TryNext put a dispatched client back into the one-element orderedClients,
\* which now has an array of its own, and the three clients of the full set
\* are as built.
C21_Witness ==
    /\ harness = "storage"
    /\ Len(clients) = 3
    /\ Len(calls) = 2
    /\ lastOp.op = "TryNext"
    /\ lastOp.err = "nil"
    /\ ~IsIn(lastOp.before, lastOp.replica)
    /\ ocRef.arr = "own"
    /\ View(heap, ocRef) = <<clients[1]>>
    /\ View(heap, allRef) = clients

====
